---- MODULE Spec2Model ----
(***************************************************************************)
(* Model of the exam-question pipeline: utils/ocr.py (reader cache, image  *)
(* preprocessing, text extraction), utils/llm.py, utils/notion.py, the     *)
(* LangGraph workflow of aws_question_agent.py and main() of main.py.      *)
(***************************************************************************)
EXTENDS Integers, Sequences, FiniteSets, TLC

(***************************************************************************)
(* Python floats.  `scale = resize_width / w` and `w*scale` are IEEE-754   *)
(* binary64 operations, each correctly rounded (round half to even).  A    *)
(* positive float is [m, e]: m is the significand, MantissaBits bits most  *)
(* significant first with m[1] = 1, and the value is                       *)
(*   SUM_i m[i] * 2^(e - i + 1).                                           *)
(***************************************************************************)
MantissaBits == 53

RECURSIVE Pow2(_)
Pow2(k) == IF k = 0 THEN 1 ELSE 2 * Pow2(k - 1)

\* the largest k with den * 2^k <= num (num >= den > 0)
RECURSIVE Log2Quot(_, _)
Log2Quot(num, den) == IF 2 * den <= num THEN 1 + Log2Quot(num, 2 * den) ELSE 0

\* the bits of n, most significant first (<<>> for 0)
RECURSIVE BitsOf(_)
BitsOf(n) == IF n = 0 THEN <<>> ELSE Append(BitsOf(n \div 2), n % 2)

\* the number a bit sequence spells
RECURSIVE ValueOf(_)
ValueOf(bits) ==
    IF bits = <<>> THEN 0
    ELSE 2 * ValueOf(SubSeq(bits, 1, Len(bits) - 1)) + bits[Len(bits)]

\* bits + 1 as [bits, carry], working up from position i with the lower
\* positions already in acc: carry = 1 when every bit was 1
RECURSIVE IncrementFrom(_, _, _)
IncrementFrom(bits, i, acc) ==
    IF i = 0 THEN [bits |-> acc, carry |-> 1]
    ELSE IF bits[i] = 0
         THEN [bits |-> SubSeq(bits, 1, i - 1) \o <<1>> \o acc, carry |-> 0]
         ELSE IncrementFrom(bits, i - 1, <<0>> \o acc)

Increment(bits) == IncrementFrom(bits, Len(bits), <<>>)

\* Round the exact value (bits, then a guard bit, then sticky = something
\* non-zero below the guard) to MantissaBits bits, half to even.
RoundHalfEven(bits, e, guard, sticky) ==
    IF ~(guard = 1 /\ (sticky \/ bits[Len(bits)] = 1))
    THEN [m |-> bits, e |-> e]
    ELSE IF Increment(bits).carry = 1
         THEN [m |-> <<1>> \o SubSeq(Increment(bits).bits, 1, Len(bits) - 1),
               e |-> e + 1]
         ELSE [m |-> Increment(bits).bits, e |-> e]

\* long division: the next `count` quotient bits of rem / den (rem < den)
\* appended to acc, as [bits, rem]
RECURSIVE DivBits(_, _, _, _)
DivBits(rem, den, count, acc) ==
    IF count = 0 THEN [bits |-> acc, rem |-> rem]
    ELSE IF 2 * rem >= den
         THEN DivBits(2 * rem - den, den, count - 1, Append(acc, 1))
         ELSE DivBits(2 * rem, den, count - 1, Append(acc, 0))

\* the quotient num / den in [1, 2) (den <= num < 2 * den), rounded
DivRound(num, den, e) ==
    RoundHalfEven(DivBits(num - den, den, MantissaBits - 1, <<1>>).bits, e,
                  DivBits(num - den, den, MantissaBits, <<1>>).bits[MantissaBits + 1],
                  DivBits(num - den, den, MantissaBits, <<1>>).rem # 0)

\* a / b for ints a >= b > 0 (Python true division, correctly rounded)
FloatDiv(a, b) == DivRound(a, b * Pow2(Log2Quot(a, b)), Log2Quot(a, b))

\* n * bits, working up from position i with carry into it and the lower
\* positions of the product already in acc
RECURSIVE MulBits(_, _, _, _, _)
MulBits(n, bits, i, carry, acc) ==
    IF i = 0 THEN BitsOf(carry) \o acc
    ELSE MulBits(n, bits, i - 1, (n * bits[i] + carry) \div 2,
                 <<(n * bits[i] + carry) % 2>> \o acc)

\* the exact product `full` (MantissaBits + extra bits), rounded
MulRound(full, e) ==
    IF Len(full) = MantissaBits THEN [m |-> full, e |-> e]
    ELSE RoundHalfEven(SubSeq(full, 1, MantissaBits),
                       e + (Len(full) - MantissaBits),
                       full[MantissaBits + 1],
                       \E i \in (MantissaBits + 2)..Len(full) : full[i] = 1)

\* n * x for an int n >= 1 and a float x (the int converts exactly)
FloatMulInt(n, x) == MulRound(MulBits(n, x.m, Len(x.m), 0, <<>>), x.e)

\* int(x) for a float x >= 1: truncation
FloatToInt(x) == ValueOf(SubSeq(x.m, 1, x.e + 1))

(***************************************************************************)
(* Python values.  A str is a sequence of pieces: a piece is a whitespace  *)
(* character or a chunk of non-blank text.  An optional value (a dict key  *)
(* or a local that may not be set yet) is <<>> when absent and <<v>> when  *)
(* present.  Values of different Python types are told apart by the one    *)
(* field they carry: [str |-> ..], [dict |-> ..].                          *)
(***************************************************************************)
Whitespace == {" ", "\n"}

RECURSIVE LStrip(_)
LStrip(s) == IF s # <<>> /\ s[1] \in Whitespace THEN LStrip(Tail(s)) ELSE s

RECURSIVE RStrip(_)
RStrip(s) ==
    IF s # <<>> /\ s[Len(s)] \in Whitespace
    THEN RStrip(SubSeq(s, 1, Len(s) - 1)) ELSE s

\* str.strip()
Strip(s) == RStrip(LStrip(s))

\* sep.join(parts)
RECURSIVE Join(_, _)
Join(sep, parts) ==
    IF parts = <<>> THEN <<>>
    ELSE IF Len(parts) = 1 THEN parts[1]
         ELSE parts[1] \o sep \o Join(sep, Tail(parts))

\* [r.strip() for r in results if r.strip()]
RECURSIVE StrippedNonBlank(_)
StrippedNonBlank(results) ==
    IF results = <<>> THEN <<>>
    ELSE IF Strip(results[1]) # <<>>
         THEN <<Strip(results[1])>> \o StrippedNonBlank(Tail(results))
         ELSE StrippedNonBlank(Tail(results))

(***************************************************************************)
(* The inputs: the image files a path may name, the configurations of the  *)
(* recognition engine, and what the language model may answer.             *)
(***************************************************************************)
MaxRuns == 2

DefaultResizeWidth == 1600

\* a path that names no decodable image
Unreadable == [readable |-> FALSE, w |-> 0, h |-> 0, gray |-> <<>>, fragments |-> <<>>]

ImageSizes == {<<97, 145>>, <<800, 600>>, <<1599, 29>>, <<1600, 800>>, <<2000, 800>>}

\* what reader.readtext finds in the picture
ImageFragments ==
    { <<>>,
      << <<" ">> >>,
      << <<" ", "What is S3?", " ">>, <<"\n">>, <<"A) Storage", " ", "B) Compute">> >> }

\* the intensities (0..255) of the grayscale buffer cv2.cvtColor makes of the
\* picture: all white, all black, mean exactly 100 (twice), mean 99.5 and
\* mean 100.5
ImageGrays ==
    { <<255, 255, 255, 255>>, <<0, 0, 0, 0>>, <<100, 100>>, <<0, 200>>,
      <<99, 100>>, <<100, 101>> }

Picture(d, g, f) ==
    [readable |-> TRUE, w |-> d[1], h |-> d[2], gray |-> g, fragments |-> f]

\* a 1600x800 all-white screenshot of a question, and the pictures that
\* differ from it in size, in intensities or in text
BasePicture ==
    Picture(<<1600, 800>>, <<255, 255, 255, 255>>,
            << <<" ", "What is S3?", " ">>, <<"\n">>,
               <<"A) Storage", " ", "B) Compute">> >>)

Images ==
    {Unreadable}
    \cup { Picture(d, BasePicture.gray, BasePicture.fragments) : d \in ImageSizes }
    \cup { Picture(<<BasePicture.w, BasePicture.h>>, g, BasePicture.fragments) :
             g \in ImageGrays }
    \cup { Picture(<<BasePicture.w, BasePicture.h>>, BasePicture.gray, f) :
             f \in ImageFragments }

\* whether each of the three cv2.imwrite calls can write its file (the
\* directory outputs/ may be missing or unwritable, the disk full)
WriteOutcomes == [1..3 -> BOOLEAN]

Langs == {"en", "es"}

DefaultLangList == <<"en">>

DefaultGpu == TRUE

\* the JSON texts the model may produce, and what json.loads makes of them
RecordJson ==
    "{\"question\": \"What is S3?\", \"answer\": [{\"option\": \"Storage\", \"isCorrect\": true, \"explanation\": \"S3 almacena objetos\"}, {\"option\": \"Compute\", \"isCorrect\": false, \"explanation\": \"S3 no ejecuta codigo\"}]}"

PartialJson == "{\"question\": \"What is S3?\"}"

NotJson == "Sure! Here is the analysis:"

Record ==
    [dict |->
        [question |-> "What is S3?",
         answer   |-> << [option |-> "Storage", isCorrect |-> TRUE,
                          explanation |-> "S3 almacena objetos"],
                         [option |-> "Compute", isCorrect |-> FALSE,
                          explanation |-> "S3 no ejecuta codigo"] >>]]

\* the records build_notion_payload is applied to on its own: a question and
\* up to MaxAnswers answers, each an option, a flag and an explanation
MaxAnswers == 3

Questions == {"What is S3?", "What is EC2?"}

Answers ==
    [option      : {"Storage", "Compute"},
     isCorrect   : BOOLEAN,
     explanation : {"S3 almacena objetos", "S3 no ejecuta codigo"}]

Records ==
    {[dict |-> [question |-> q, answer |-> a]] :
        q \in Questions, a \in UNION {[1..n -> Answers] : n \in 0..MaxAnswers}}

\* response.content of the model: the text, possibly padded with whitespace
LlmContents ==
    { <<NotJson>>, <<PartialJson>>, <<RecordJson>>, <<"\n", RecordJson, "\n", " ">> }

\* json.loads(text): [raised] or [value]
JsonLoads(text) ==
    IF text = <<RecordJson>> THEN [raised |-> "none", value |-> Record]
    ELSE IF text = <<PartialJson>>
         THEN [raised |-> "none", value |-> [dict |-> [question |-> "What is S3?"]]]
         ELSE [raised |-> "JSONDecodeError"]

VARIABLES
    reader,        \* ocr._reader: 0 is None, else the index of an engine
    engines,       \* the easyocr.Reader instances constructed, by index
    readerCalls,   \* the init_reader calls of the process
    runs,          \* pipeline runs started in this process
    driver,        \* "none", "graph" (graph.invoke), "main" (main()), "script", "upload_question"
    pc,            \* where the run is
    error,         \* the exception that ended the run, or "none"
    image,         \* the file at the run's image path
    args,          \* main()'s arguments
    state,         \* the GraphState dict of the run
    extracted,     \* what image_to_text returned (optional)
    reply,         \* what answer_question_with_llm returned (optional)
    prep,          \* what preprocess_image returned (optional)
    debugFiles,    \* the cv2.imwrite calls of the run: [path, buffer, ok]
    imreadCalls, readtextCalls, llmCalls, uploadCalls, nodeCalls,
    written,       \* files the run wrote to local storage
    stdout,        \* the values the run printed (fixed progress messages left out)
    notion         \* payloads the run appended to the Notion parent page

vars == <<reader, engines, readerCalls, runs, driver, pc, error, image, args,
          state, extracted, reply, prep, debugFiles, imreadCalls, readtextCalls, llmCalls,
          uploadCalls, nodeCalls, written, stdout, notion>>

readerVars == <<reader, engines, readerCalls>>
ocrVars == <<extracted, prep, debugFiles, imreadCalls, readtextCalls>>

Init ==
    /\ reader = 0
    /\ engines = <<>>
    /\ readerCalls = <<>>
    /\ runs = 0
    /\ driver = "none"
    /\ pc = "idle"
    /\ error = "none"
    /\ image = Unreadable
    /\ args = [lang |-> "en", use_gpu |-> TRUE, notion_upload |-> TRUE]
    /\ state = [file_path |-> <<>>, ocr_text |-> <<>>, question |-> <<>>]
    /\ extracted = <<>>
    /\ reply = <<>>
    /\ prep = <<>>
    /\ debugFiles = <<>>
    /\ imreadCalls = 0
    /\ readtextCalls = 0
    /\ llmCalls = <<>>
    /\ uploadCalls = <<>>
    /\ nodeCalls = <<>>
    /\ written = {}
    /\ stdout = <<>>
    /\ notion = <<>>

(***************************************************************************)
(* utils/ocr.py                                                            *)
(***************************************************************************)

\* init_reader without its `_reader is None` test: a new engine every call
init_reader_uncached(lang_list, gpu) ==
    [reader  |-> Len(engines) + 1,
     engines |-> Append(engines, [lang_list |-> lang_list, gpu |-> gpu])]

\* init_reader: the engine it returns and the engines after the call
init_reader(lang_list, gpu) ==
    IF reader = 0
    THEN [reader  |-> Len(engines) + 1,
          engines |-> Append(engines, [lang_list |-> lang_list, gpu |-> gpu])]
    ELSE [reader |-> reader, engines |-> engines]

\* the (width, height) handed to cv2.resize
Resized(w, h, resize_width) ==
    IF w < resize_width
    THEN [w |-> FloatToInt(FloatMulInt(w, FloatDiv(resize_width, w))),
          h |-> FloatToInt(FloatMulInt(h, FloatDiv(resize_width, w)))]
    ELSE [w |-> w, h |-> h]

\* the mean intensity below which the buffer is inverted
InvertBelow == 100

RECURSIVE SumOf(_)
SumOf(buf) == IF buf = <<>> THEN 0 ELSE buf[1] + SumOf(Tail(buf))

\* `mean_intensity < limit` with the test `<=`
MeanAtOrBelow(buf, limit) == buf # <<>> /\ SumOf(buf) <= limit * Len(buf)

\* np.mean(buf) < limit: the sum is exact in float64, the mean is the float
\* sum / count (nan for an empty buffer, and nan < limit is False); for an
\* integer limit a float x >= 1 is below it exactly when int(x) is
MeanBelow(buf, limit) ==
    IF buf = <<>> THEN FALSE
    ELSE IF SumOf(buf) < Len(buf) THEN 1 <= limit
    ELSE FloatToInt(FloatDiv(SumOf(buf), Len(buf))) < limit

\* cv2.bitwise_not on a uint8 buffer
BitwiseNot(buf) == [i \in 1..Len(buf) |-> 255 - buf[i]]

\* the grayscale buffer after the polarity step
Polarised(buf) == IF MeanBelow(buf, InvertBelow) THEN BitwiseNot(buf) ELSE buf

\* cv2.bilateralFilter and cv2.adaptiveThreshold: library filters, kept as
\* the deterministic functions of their arguments that they are
BilateralFilter(buf, d, sigmaColor, sigmaSpace) ==
    [bilateralFilter |-> buf, d |-> d, sigmaColor |-> sigmaColor,
     sigmaSpace |-> sigmaSpace]

AdaptiveThreshold(buf, maxValue, method, type, blockSize, C) ==
    [adaptiveThreshold |-> buf, maxValue |-> maxValue, method |-> method,
     type |-> type, blockSize |-> blockSize, C |-> C]

Blurred(buf) == BilateralFilter(Polarised(buf), 9, 15, 15)

Binarized(buf) ==
    AdaptiveThreshold(Blurred(buf), 255, "ADAPTIVE_THRESH_GAUSSIAN_C",
                      "THRESH_BINARY", 15, 8)

\* cv2.imwrite that raises when the file cannot be written
imwrite_checked(path, buf, ok) ==
    IF ok THEN [raised |-> "none", returned |-> TRUE] ELSE [raised |-> "OSError"]

\* cv2.imwrite(path, buf): returns whether the file was written, and raises
\* nothing when it was not
imwrite(path, buf, ok) == [raised |-> "none", returned |-> ok]

\* the imwrite calls of preprocess_image, in order
DebugWrites(img, fs) ==
    << [path |-> "outputs/preprocessed-gray.jpg", buffer |-> Polarised(img.gray),
        ok |-> fs[1]],
       [path |-> "outputs/preprocessed-blur.jpg", buffer |-> Blurred(img.gray),
        ok |-> fs[2]],
       [path |-> "outputs/preprocessed.jpg", buffer |-> Binarized(img.gray),
        ok |-> fs[3]] >>

\* the exceptions the imwrite calls raise, in order
RECURSIVE WriteErrors(_)
WriteErrors(writes) ==
    IF writes = <<>> THEN <<>>
    ELSE IF imwrite(writes[1].path, writes[1].buffer, writes[1].ok).raised # "none"
         THEN <<imwrite(writes[1].path, writes[1].buffer, writes[1].ok).raised>>
                 \o WriteErrors(Tail(writes))
         ELSE WriteErrors(Tail(writes))

\* preprocess_image without its `img is None` test
preprocess_image_unchecked(img, resize_width, fs) ==
    [raised |-> "none", w |-> img.w, h |-> img.h,
     inverted |-> FALSE, th |-> Binarized(img.gray)]

\* preprocess_image(path, resize_width) on the file `img` at path, the debug
\* writes doing `fs`: [raised] or the buffer it returns (its size, whether
\* it was inverted, its content)
preprocess_image(img, resize_width, fs) ==
    IF ~img.readable
    THEN [raised |-> "FileNotFoundError"]
    ELSE IF WriteErrors(DebugWrites(img, fs)) # <<>>
         THEN [raised |-> WriteErrors(DebugWrites(img, fs))[1]]
         ELSE [raised |-> "none",
               w |-> Resized(img.w, img.h, resize_width).w,
               h |-> Resized(img.w, img.h, resize_width).h,
               inverted |-> MeanBelow(img.gray, InvertBelow),
               th |-> Binarized(img.gray)]

\* image_to_text(path, lang_list, gpu) on the file `img` at path
image_to_text(img, lang_list, gpu) ==
    /\ reader' = init_reader(lang_list, gpu).reader
    /\ engines' = init_reader(lang_list, gpu).engines
    /\ readerCalls' = Append(readerCalls,
                             [lang_list   |-> lang_list,
                              gpu         |-> gpu,
                              engine      |-> init_reader(lang_list, gpu).reader,
                              constructed |-> Len(init_reader(lang_list, gpu).engines)
                                                > Len(engines)])
    /\ imreadCalls' = imreadCalls + 1
    /\ \E fs \in WriteOutcomes :
        /\ prep' = <<preprocess_image(img, DefaultResizeWidth, fs)>>
        /\ debugFiles' = IF img.readable THEN DebugWrites(img, fs) ELSE <<>>
    /\ IF prep'[1].raised # "none"
       THEN /\ readtextCalls' = readtextCalls
            /\ extracted' = <<>>
            /\ error' = prep'[1].raised
       ELSE /\ readtextCalls' = readtextCalls + 1
            /\ extracted' = <<Join(<<"\n">>, StrippedNonBlank(img.fragments))>>
            /\ error' = "none"

(***************************************************************************)
(* utils/llm.py                                                            *)
(***************************************************************************)

\* what model.invoke may do: raise, or answer with some content
LlmOutcomes ==
    {[raised |-> "ConnectionError"]} \cup
    {[raised |-> "none", content |-> c] : c \in LlmContents}

\* answer_question_with_llm(question_text) when model.invoke does `outcome`
answer_question_with_llm(question_text, outcome) ==
    IF outcome.raised # "none"
    THEN [raised |-> outcome.raised]
    ELSE [raised |-> "none", value |-> Strip(outcome.content)]

(***************************************************************************)
(* utils/notion.py                                                         *)
(***************************************************************************)

IsDict(v) == DOMAIN v = {"dict"}

\* correctness_label = "Correcto" if ans["isCorrect"] else "Incorrecto"
CorrectnessLabel(isCorrect) == IF isCorrect THEN "Correcto" ELSE "Incorrecto"

\* every explanation shown in green
ColorAlwaysGreen(isCorrect) == "green"

\* color = "green" if ans["isCorrect"] else "red"
Color(isCorrect) == IF isCorrect THEN "green" ELSE "red"

\* one toggle block of build_notion_payload
Toggle(ans) ==
    [object |-> "block",
     type   |-> "toggle",
     toggle |->
        [rich_text |-> << [type |-> "text", text |-> [content |-> ans.option]] >>,
         children  |->
            << [object    |-> "block",
                type      |-> "paragraph",
                paragraph |->
                    [rich_text |->
                        << [type |-> "text",
                            text |-> [content |->
                                        <<CorrectnessLabel(ans.isCorrect), ": ">>],
                            annotations |->
                                [code  |-> TRUE,
                                 color |-> Color(ans.isCorrect)]],
                           [type |-> "text",
                            text |-> [content |-> ans.explanation]] >>]] >>]]

\* build_notion_payload(question_data): [raised] or the payload
build_notion_payload(question_data) ==
    IF ~IsDict(question_data) THEN [raised |-> "TypeError"]
    ELSE IF "answer" \notin DOMAIN question_data.dict THEN [raised |-> "KeyError"]
    ELSE IF "question" \notin DOMAIN question_data.dict THEN [raised |-> "KeyError"]
    ELSE [raised |-> "none",
          value  |->
            [children |->
                << [object |-> "block",
                    type   |-> "numbered_list_item",
                    numbered_list_item |->
                        [rich_text |->
                            << [type |-> "text",
                                text |-> [content |-> question_data.dict.question]] >>,
                         children |->
                            [i \in 1..Len(question_data.dict.answer) |->
                                Toggle(question_data.dict.answer[i])]]] >>]]

\* Binding the call upload_question(*positional, **keywords) to the signature
\* upload_question(question_data: dict)
UploadSignatureBinds(call) == Len(call.args) = 1 /\ call.kwargs = {}

\* notion.append_block_children may fail (network, credentials, rejection)
NotionOutcomes == {"none", "NotionError"}

\* upload_question called as `call`, the Notion API doing `api`:
\* the exception it raises, what it prints and what it appends to the page
upload_question(call, api) ==
    IF ~UploadSignatureBinds(call)
    THEN [raised |-> "TypeError", printed |-> <<>>, appended |-> <<>>]
    ELSE IF build_notion_payload(call.args[1]).raised # "none"
         THEN [raised   |-> build_notion_payload(call.args[1]).raised,
               printed  |-> <<call.args[1]>>,
               appended |-> <<>>]
         ELSE IF api # "none"
              THEN [raised |-> api, printed |-> <<call.args[1]>>, appended |-> <<>>]
              ELSE [raised   |-> "none",
                    printed  |-> <<call.args[1]>>,
                    appended |-> <<build_notion_payload(call.args[1]).value>>]

\* upload_question(question_data) called on its own with a structured record
CallUploadQuestion ==
    \E question_data \in Records, api \in NotionOutcomes :
        /\ pc = "idle"
        /\ driver' = "upload_question"
        /\ uploadCalls' = <<[args |-> <<question_data>>, kwargs |-> {}]>>
        /\ stdout' = upload_question(uploadCalls'[1], api).printed
        /\ notion' = upload_question(uploadCalls'[1], api).appended
        /\ error' = upload_question(uploadCalls'[1], api).raised
        /\ pc' = IF error' = "none" THEN "returned" ELSE "raised"
        /\ UNCHANGED <<readerVars, ocrVars, runs, image, args, state, reply,
                       llmCalls, nodeCalls, written>>

(***************************************************************************)
(* aws_question_agent.py: the compiled graph.  A node gets the state dict  *)
(* with the keys written so far; an exception in a node ends graph.invoke. *)
(***************************************************************************)
RunOver == pc \in {"END", "returned", "raised"}

NoTextMessage == [str |-> <<"No text extracted from image.">>]

\* a new run starts from a clean record
StartRun(kind, img, a) ==
    /\ pc = "idle" \/ RunOver
    /\ runs < MaxRuns
    /\ runs' = runs + 1
    /\ driver' = kind
    /\ image' = img
    /\ args' = a
    /\ error' = "none"
    /\ state' = [file_path |-> <<"images/Prueba.png">>, ocr_text |-> <<>>,
                 question |-> <<>>]
    /\ extracted' = <<>>
    /\ reply' = <<>>
    /\ prep' = <<>>
    /\ debugFiles' = <<>>
    /\ imreadCalls' = 0
    /\ readtextCalls' = 0
    /\ llmCalls' = <<>>
    /\ uploadCalls' = <<>>
    /\ nodeCalls' = <<>>
    /\ written' = {}
    /\ stdout' = <<>>
    /\ notion' = <<>>
    /\ UNCHANGED readerVars

\* workflow.set_entry_point
EntryPoint == "get_question_text"

\* the edges with the last two stages exchanged
EdgeMisordered(node) ==
    IF node = "get_question_text" THEN "upload_to_notion"
    ELSE IF node = "upload_to_notion" THEN "convert_text_to_json"
    ELSE "END"

\* workflow.add_edge: the node that runs after `node` has returned
Edge(node) ==
    IF node = "get_question_text" THEN "convert_text_to_json"
    ELSE IF node = "convert_text_to_json" THEN "upload_to_notion"
    ELSE "END"

\* graph.invoke(input_state)
InvokeGraph ==
    \E img \in Images :
        /\ StartRun("graph", img,
                    [lang |-> "en", use_gpu |-> TRUE, notion_upload |-> TRUE])
        /\ pc' = EntryPoint

\* get_question_text without its blank test
NoTextNever(text) == FALSE

\* `not text.strip()` in get_question_text
NoText(text) == Strip(text) = <<>>

get_question_text ==
    /\ pc = "get_question_text"
    /\ nodeCalls' = Append(nodeCalls, "get_question_text")
    /\ image_to_text(image, DefaultLangList, DefaultGpu)
    /\ IF error' # "none"
       THEN /\ pc' = "raised"
            /\ UNCHANGED <<state, stdout>>
       ELSE IF NoText(extracted'[1])
            THEN /\ stdout' = Append(stdout, NoTextMessage)
                 /\ state' = state
                 /\ pc' = Edge("get_question_text")
            ELSE /\ state' = [state EXCEPT !.ocr_text = extracted']
                 /\ stdout' = stdout
                 /\ pc' = Edge("get_question_text")
    /\ UNCHANGED <<runs, driver, image, args, reply, llmCalls, uploadCalls,
                   written, notion>>

convert_text_to_json ==
    /\ pc = "convert_text_to_json"
    /\ nodeCalls' = Append(nodeCalls, "convert_text_to_json")
    /\ IF state.ocr_text = <<>>
       THEN /\ error' = "KeyError"
            /\ pc' = "raised"
            /\ UNCHANGED <<state, reply, llmCalls>>
       ELSE \E outcome \in LlmOutcomes :
            /\ llmCalls' = Append(llmCalls, state.ocr_text[1])
            /\ IF answer_question_with_llm(state.ocr_text[1], outcome).raised # "none"
               THEN /\ error' = answer_question_with_llm(state.ocr_text[1], outcome).raised
                    /\ pc' = "raised"
                    /\ UNCHANGED <<state, reply>>
               ELSE /\ reply' = <<answer_question_with_llm(state.ocr_text[1], outcome).value>>
                    /\ IF JsonLoads(reply'[1]).raised # "none"
                       THEN /\ error' = JsonLoads(reply'[1]).raised
                            /\ pc' = "raised"
                            /\ state' = state
                       ELSE /\ state' = [state EXCEPT
                                            !.question = <<JsonLoads(reply'[1]).value>>]
                            /\ error' = "none"
                            /\ pc' = Edge("convert_text_to_json")
    /\ UNCHANGED <<readerVars, ocrVars, runs, driver, image, args, uploadCalls,
                   written, stdout, notion>>

upload_to_notion ==
    /\ pc = "upload_to_notion"
    /\ nodeCalls' = Append(nodeCalls, "upload_to_notion")
    /\ IF state.question = <<>>
       THEN /\ error' = "KeyError"
            /\ pc' = "raised"
            /\ UNCHANGED <<uploadCalls, stdout, notion>>
       ELSE \E api \in NotionOutcomes :
            /\ uploadCalls' = Append(uploadCalls,
                                     [args |-> <<state.question[1]>>, kwargs |-> {}])
            /\ stdout' = stdout \o upload_question(uploadCalls'[Len(uploadCalls')], api).printed
            /\ notion' = notion \o upload_question(uploadCalls'[Len(uploadCalls')], api).appended
            /\ error' = upload_question(uploadCalls'[Len(uploadCalls')], api).raised
            /\ pc' = IF error' = "none" THEN Edge("upload_to_notion") ELSE "raised"
    /\ UNCHANGED <<readerVars, ocrVars, runs, driver, image, args, state, reply,
                   llmCalls, written>>

(***************************************************************************)
(* main.py                                                                 *)
(***************************************************************************)

\* md = f"# Question\n\n{text}\n\n# Answer\n\n{answer}\n"
Markdown(text, answer) ==
    <<"# Question", "\n", "\n">> \o text \o <<"\n", "\n", "# Answer", "\n", "\n">>
        \o answer \o <<"\n">>

\* the path save_markdown returns: outputs/answer_<timestamp>.md
SavedPath == <<"outputs", "/", "answer_", "%Y%m%d_%H%M%S", ".md">>

\* save_markdown(content): the file it writes
save_markdown(content) == [path |-> SavedPath, content |-> content]

\* main(image_path, lang, use_gpu, notion_upload) is called
CallMain ==
    \E img \in Images, lang \in Langs, use_gpu \in BOOLEAN, notion_upload \in BOOLEAN :
        /\ StartRun("main", img,
                    [lang |-> lang, use_gpu |-> use_gpu, notion_upload |-> notion_upload])
        /\ pc' = "main_ocr"

\* `not text.strip()` in main
MainNoText(text) == Strip(text) = <<>>

\* main.py lines 18-25
MainOcr ==
    /\ pc = "main_ocr"
    /\ image_to_text(image, <<args.lang>>, args.use_gpu)
    /\ IF error' # "none"
       THEN /\ pc' = "raised"
            /\ stdout' = stdout
       ELSE IF MainNoText(extracted'[1])
            THEN /\ stdout' = Append(stdout, NoTextMessage)
                 /\ pc' = "returned"
            ELSE /\ stdout' = stdout
                 /\ pc' = "main_llm"
    /\ UNCHANGED <<runs, driver, image, args, state, reply, llmCalls, uploadCalls,
                   nodeCalls, written, notion>>

\* main.py lines 27-29
MainAsk ==
    /\ pc = "main_llm"
    /\ \E outcome \in LlmOutcomes :
        /\ llmCalls' = Append(llmCalls, extracted[1])
        /\ IF answer_question_with_llm(extracted[1], outcome).raised # "none"
           THEN /\ error' = answer_question_with_llm(extracted[1], outcome).raised
                /\ pc' = "raised"
                /\ reply' = reply
           ELSE /\ reply' = <<answer_question_with_llm(extracted[1], outcome).value>>
                /\ error' = "none"
                /\ pc' = "main_save"
    /\ UNCHANGED <<readerVars, ocrVars, runs, driver, image, args, state, uploadCalls,
                   nodeCalls, written, stdout, notion>>

\* main.py lines 31-32
MainSave ==
    /\ pc = "main_save"
    /\ written' = written \cup {save_markdown(Markdown(extracted[1], reply[1]))}
    /\ pc' = IF args.notion_upload THEN "main_upload" ELSE "returned"
    /\ UNCHANGED <<readerVars, ocrVars, runs, driver, error, image, args, state, reply,
                   llmCalls, uploadCalls, nodeCalls, stdout, notion>>

\* main.py lines 34-37: upload_question(md, title=...) and page.get("id") on
\* the bool it returns
MainUpload ==
    /\ pc = "main_upload"
    /\ \E api \in NotionOutcomes :
        /\ uploadCalls' = Append(uploadCalls,
                                 [args   |-> <<[str |-> Markdown(extracted[1], reply[1])]>>,
                                  kwargs |-> {"title"}])
        /\ stdout' = stdout \o upload_question(uploadCalls'[Len(uploadCalls')], api).printed
        /\ notion' = notion \o upload_question(uploadCalls'[Len(uploadCalls')], api).appended
        /\ error' = IF upload_question(uploadCalls'[Len(uploadCalls')], api).raised = "none"
                    THEN "AttributeError"
                    ELSE upload_question(uploadCalls'[Len(uploadCalls')], api).raised
        /\ pc' = "raised"
    /\ UNCHANGED <<readerVars, ocrVars, runs, driver, image, args, state, reply,
                   llmCalls, nodeCalls, written>>

\* main.py run as a script (line 47): print(image_to_text("images/Example.png"))
RunScript ==
    \E img \in Images :
        /\ StartRun("script", img,
                    [lang |-> "en", use_gpu |-> TRUE, notion_upload |-> FALSE])
        /\ pc' = "script_ocr"

ScriptOcr ==
    /\ pc = "script_ocr"
    /\ image_to_text(image, DefaultLangList, DefaultGpu)
    /\ IF error' # "none"
       THEN /\ pc' = "raised"
            /\ stdout' = stdout
       ELSE /\ pc' = "returned"
            /\ stdout' = Append(stdout, [str |-> extracted'[1]])
    /\ UNCHANGED <<runs, driver, image, args, state, reply, llmCalls, uploadCalls,
                   nodeCalls, written, notion>>

Next ==
    \/ InvokeGraph
    \/ get_question_text
    \/ convert_text_to_json
    \/ upload_to_notion
    \/ CallMain
    \/ MainOcr
    \/ MainAsk
    \/ MainSave
    \/ MainUpload
    \/ RunScript
    \/ ScriptOcr

Spec == Init /\ [][Next]_vars

\* utils/notion.py used on its own, over every record of Records
NotionSpec == Init /\ [][CallUploadQuestion]_vars

(***************************************************************************)
(* The claims.                                                             *)
(***************************************************************************)
BlankExtracted == extracted # <<>> /\ Strip(extracted[1]) = <<>>

TextExtracted == extracted # <<>> /\ Strip(extracted[1]) # <<>>

\* the reply of the Question Structurer is a structured record: it parses,
\* to a dict with the question text and the option list
WellFormed(text) ==
    /\ JsonLoads(text).raised = "none"
    /\ IsDict(JsonLoads(text).value)
    /\ DOMAIN JsonLoads(text).value.dict = {"question", "answer"}

StructurerFailed ==
    \/ error \in {"ConnectionError", "JSONDecodeError"}
    \/ reply # <<>> /\ ~WellFormed(reply[1])

\* C1: when image_to_text returns blank text, the run reaches its end (END of
\* the graph, return of main) and neither the Question Structurer
\* (convert_text_to_json, answer_question_with_llm) nor the Publisher
\* (upload_to_notion, upload_question) is ever invoked.
C1_BlankTextSkipsStages ==
    BlankExtracted =>
        /\ llmCalls = <<>>
        /\ uploadCalls = <<>>
        /\ \A i \in 1..Len(nodeCalls) :
              nodeCalls[i] \notin {"convert_text_to_json", "upload_to_notion"}
        /\ RunOver => pc \in {"END", "returned"}

\* C2: when the extracted text is non-blank and the Question Structurer
\* returned a well-formed record R, the finished run (graph, or main with
\* notion_upload) has invoked upload_question exactly once, with exactly R.
C2_PublisherGetsTheRecordOnce ==
    ( /\ RunOver
      /\ TextExtracted
      /\ reply # <<>>
      /\ WellFormed(reply[1])
      /\ args.notion_upload )
    => uploadCalls = << [args |-> <<JsonLoads(reply[1]).value>>, kwargs |-> {}] >>

\* C3: when the Question Structurer raises or returns a reply that is not a
\* parseable structured record, the run ends in a failure and upload_question
\* is never invoked.
C3_StructuringFailureIsFatal ==
    StructurerFailed =>
        /\ uploadCalls = <<>>
        /\ RunOver => pc = "raised"

\* C4: when image_to_text returns blank text, no exception is raised: the run
\* ends in END / a return with no error propagated to the caller.
C4_BlankTextIsNoError ==
    BlankExtracted => error = "none" /\ pc # "raised"

SameConfig(a, b) == a.lang_list = b.lang_list /\ a.gpu = b.gpu

\* C6: easyocr.Reader is constructed at most once per (lang_list, gpu)
\* configuration: a call whose configuration was already seen constructs
\* no engine.
C6_EngineOncePerConfig ==
    /\ \A i, j \in 1..Len(engines) : i # j => ~SameConfig(engines[i], engines[j])
    /\ \A i, j \in 1..Len(readerCalls) :
          (i < j /\ SameConfig(readerCalls[i], readerCalls[j]))
              => ~readerCalls[j].constructed
    /\ Len(engines) = Cardinality({i \in 1..Len(readerCalls) : readerCalls[i].constructed})

C6_Witness ==
    /\ Len(readerCalls) >= 2
    /\ SameConfig(readerCalls[1], readerCalls[2])
    /\ Len(engines) = 1

\* C7: the engine a call gets was constructed with the call's own
\* (lang_list, gpu), and calls with distinct configurations get distinct
\* engine instances.
C7_EngineMatchesConfig ==
    /\ \A i \in 1..Len(readerCalls) :
          SameConfig(engines[readerCalls[i].engine], readerCalls[i])
    /\ \A i, j \in 1..Len(readerCalls) :
          ~SameConfig(readerCalls[i], readerCalls[j])
              => readerCalls[i].engine # readerCalls[j].engine

\* s holds sub as a contiguous part
Contains(s, sub) ==
    \E i \in 0..(Len(s) - Len(sub)) : SubSeq(s, i + 1, i + Len(sub)) = sub

PublisherFailed ==
    RunOver /\ uploadCalls # <<>> /\ error # "none"

\* C8: when upload_question raises, the run fails and the record the
\* Question Structurer computed is already in local storage.
C8_RecordPreservedOnPublishFailure ==
    PublisherFailed =>
        /\ pc = "raised"
        /\ \E f \in written : Contains(f.content, reply[1])

\* C9: an image that cannot be read makes preprocess_image raise
\* FileNotFoundError, which ends the run: no readtext, no Question
\* Structurer, no Publisher, and the image is read once only.
C9_UnreadableImageIsFatal ==
    (~image.readable /\ imreadCalls > 0) =>
        /\ prep = << [raised |-> "FileNotFoundError"] >>
        /\ error = "FileNotFoundError"
        /\ pc = "raised"
        /\ imreadCalls = 1
        /\ readtextCalls = 0
        /\ extracted = <<>>
        /\ llmCalls = <<>>
        /\ uploadCalls = <<>>
        /\ \A i \in 1..Len(nodeCalls) : nodeCalls[i] = "get_question_text"

C9_Witness ==
    ~image.readable /\ imreadCalls = 1 /\ pc = "raised" /\ error = "FileNotFoundError"

\* C10: an image narrower than the target width comes out exactly
\* resize_width wide with its height within one pixel of h * resize_width / w;
\* an image at least that wide keeps its dimensions.
C10_UpscaleToTargetWidth ==
    (prep # <<>> /\ prep[1].raised = "none") =>
        IF image.w < DefaultResizeWidth
        THEN /\ prep[1].w = DefaultResizeWidth
             /\ prep[1].h * image.w - image.h * DefaultResizeWidth <= image.w
             /\ image.h * DefaultResizeWidth - prep[1].h * image.w <= image.w
        ELSE prep[1].w = image.w /\ prep[1].h = image.h

PreprocessReturned == prep # <<>> /\ prep[1].raised = "none"

AllPixels(buf, v) == \A i \in 1..Len(buf) : buf[i] = v

\* C11: the grayscale buffer is inverted exactly when its mean intensity is
\* strictly below 100 (sum < 100 * count): never for an all-white buffer,
\* always for an all-black one, and not when the mean is exactly 100.
C11_InvertedIffMeanBelow100 ==
    (image.readable /\ PreprocessReturned) =>
        /\ prep[1].inverted <=> SumOf(image.gray) < 100 * Len(image.gray)
        /\ AllPixels(image.gray, 255) => ~prep[1].inverted
        /\ AllPixels(image.gray, 0) => prep[1].inverted
        /\ SumOf(image.gray) = 100 * Len(image.gray) => ~prep[1].inverted
        /\ debugFiles[1].buffer =
              IF prep[1].inverted
              THEN [i \in 1..Len(image.gray) |-> 255 - image.gray[i]]
              ELSE image.gray

C11_Witness ==
    /\ PreprocessReturned
    /\ image.gray = <<0, 200>>
    /\ ~prep[1].inverted
    /\ debugFiles[1].buffer = <<0, 200>>

\* C12: whether each debug write of preprocess_image succeeds or fails, it
\* raises nothing, makes its three writes and returns the same binarized
\* buffer, and image_to_text goes on to readtext.
C12_DebugWritesNeverFail ==
    (image.readable /\ imreadCalls > 0) =>
        /\ PreprocessReturned
        /\ Len(debugFiles) = 3
        /\ prep[1].th = debugFiles[3].buffer
        /\ prep[1].th.adaptiveThreshold.bilateralFilter = debugFiles[1].buffer
        /\ readtextCalls = 1
        /\ extracted # <<>>
        /\ error # "OSError"

C12_Witness ==
    /\ PreprocessReturned
    /\ \E i \in 1..3 : ~debugFiles[i].ok
    /\ \E i \in 1..3 : debugFiles[i].ok
    /\ readtextCalls = 1

StageOrder == <<"get_question_text", "convert_text_to_json", "upload_to_notion">>

\* C13: in a graph run the stages are invoked in the order get_question_text,
\* convert_text_to_json, upload_to_notion, each at most once, each only after
\* the one before it has returned without raising, and none again after a
\* failure.
C13_StagesInOrderOnce ==
    IF driver # "graph" THEN nodeCalls = <<>>
    ELSE /\ Len(nodeCalls) <= Len(StageOrder)
         /\ nodeCalls = SubSeq(StageOrder, 1, Len(nodeCalls))
         /\ Len(nodeCalls) >= 2 => extracted # <<>> /\ readtextCalls = 1
         /\ Len(nodeCalls) >= 3 => reply # <<>> /\ state.question # <<>>
         /\ pc = "raised" => error # "none" /\ Len(nodeCalls) >= 1
         /\ pc = "END" => nodeCalls = StageOrder /\ error = "none"
         /\ pc \notin {"raised", "END"} =>
               /\ error = "none"
               /\ pc = StageOrder[Len(nodeCalls) + 1]

C13_Witness == driver = "graph" /\ pc = "END" /\ nodeCalls = StageOrder

C13_FailureWitness ==
    driver = "graph" /\ pc = "raised" /\ nodeCalls = SubSeq(StageOrder, 1, 2)

\* the toggle block shows the answer: its option as the toggle's text, then
\* one paragraph of the label with its colour followed by the explanation
ShowsAnswer(block, ans) ==
    /\ block.type = "toggle"
    /\ block.toggle.rich_text = << [type |-> "text", text |-> [content |-> ans.option]] >>
    /\ Len(block.toggle.children) = 1
    /\ block.toggle.children[1].type = "paragraph"
    /\ Len(block.toggle.children[1].paragraph.rich_text) = 2
    /\ block.toggle.children[1].paragraph.rich_text[1].text.content =
          <<IF ans.isCorrect THEN "Correcto" ELSE "Incorrecto", ": ">>
    /\ block.toggle.children[1].paragraph.rich_text[1].annotations.color =
          IF ans.isCorrect THEN "green" ELSE "red"
    /\ block.toggle.children[1].paragraph.rich_text[2].text.content = ans.explanation

\* the payload is one numbered-list item of the record's question whose
\* children show the record's answers, one toggle each, in order
ShowsRecord(payload, record) ==
    /\ DOMAIN payload = {"children"}
    /\ Len(payload.children) = 1
    /\ payload.children[1].type = "numbered_list_item"
    /\ payload.children[1].numbered_list_item.rich_text =
          << [type |-> "text", text |-> [content |-> record.question]] >>
    /\ Len(payload.children[1].numbered_list_item.children) = Len(record.answer)
    /\ \A i \in 1..Len(record.answer) :
          ShowsAnswer(payload.children[1].numbered_list_item.children[i],
                      record.answer[i])

\* C14: for every structured record with answers a1..an, build_notion_payload
\* returns a payload of exactly one numbered-list item whose text is the
\* question and whose children are n toggles in the order of the answers;
\* toggle i shows ai's option, then "Correcto" in green if ai.isCorrect and
\* "Incorrecto" in red otherwise, followed by ai's explanation.  That payload
\* is what upload_question appends.
C14_PayloadShowsRecord ==
    \A i \in 1..Len(uploadCalls) :
        uploadCalls[i].args[1] \in Records =>
            /\ build_notion_payload(uploadCalls[i].args[1]).raised = "none"
            /\ ShowsRecord(build_notion_payload(uploadCalls[i].args[1]).value,
                           uploadCalls[i].args[1].dict)
            /\ notion \in {<<>>, <<build_notion_payload(uploadCalls[i].args[1]).value>>}
            /\ error = "none" => notion # <<>>

C14_Witness ==
    /\ driver = "upload_question"
    /\ notion # <<>>
    /\ Len(uploadCalls[1].args[1].dict.answer) = MaxAnswers
    /\ ~uploadCalls[1].args[1].dict.answer[1].isCorrect
    /\ uploadCalls[1].args[1].dict.answer[2].isCorrect
    /\ uploadCalls[1].args[1].dict.answer[1].option = "Compute"
    /\ uploadCalls[1].args[1].dict.answer[2].option = "Storage"
    /\ notion[1].children[1].numbered_list_item.children[1]
          .toggle.children[1].paragraph.rich_text[1].annotations.color = "red"
====
